---- MODULE Spec2Model ----
(***************************************************************************)
(* Model of tcc.py (ThursdayChecker): Report.parse scans a flat file line  *)
(* by line, collects the "##" checking markup as Feedback items with the   *)
(* preceding lines of the entry as context, and retrofits the accession of *)
(* items created before the AC line of their entry was read.               *)
(*                                                                         *)
(* A line is a sequence of one-character strings, so that startswith,      *)
(* slicing, strip, split and the two regular expressions are computed on   *)
(* characters as the code computes them.                                   *)
(***************************************************************************)
EXTENDS Integers, Sequences, FiniteSets, TLC

(***************************************************************************)
(* Bounds of the model                                                     *)
(***************************************************************************)
\* longest file of the "records" family (all kinds of lines)
MaxLines == 4
\* longest file of the "example" family (the lines of the documented example)
MaxExample == 5
\* longest file of the "context" family (numbered entry lines, few "##" or "//")
MaxLong == 11
\* most lines of a "context" file that are not numbered entry lines
MaxMarked == 2

(***************************************************************************)
(* Characters and strings                                                  *)
(***************************************************************************)
Digits == {"0", "1", "2", "3", "4", "5", "6", "7", "8", "9"}

Upper == {"A", "B", "C", "D", "E", "F", "G", "H", "I", "J", "K", "L", "M",
          "N", "O", "P", "Q", "R", "S", "T", "U", "V", "W", "X", "Y", "Z"}

\* characters str.strip() removes
Whitespace == {" ", "\n", "\t", "\r"}

\* Python's None, a value no character string is equal to
None == <<"None">>

Min(a, b) == IF a < b THEN a ELSE b

Last(s) == s[Len(s)]

\* str.startswith(prefix)
StartsWith(s, prefix) ==
    /\ Len(s) >= Len(prefix)
    /\ SubSeq(s, 1, Len(prefix)) = prefix

\* s[n:] of Python (n counted from 0)
SliceFrom(s, n) == SubSeq(s, n + 1, Len(s))

\* str.strip()
RECURSIVE LStrip(_)
LStrip(s) == IF s # <<>> /\ s[1] \in Whitespace THEN LStrip(Tail(s)) ELSE s

RECURSIVE RStrip(_)
RStrip(s) ==
    IF s # <<>> /\ s[Len(s)] \in Whitespace
    THEN RStrip(SubSeq(s, 1, Len(s) - 1))
    ELSE s

Strip(s) == RStrip(LStrip(s))

\* s.split(sep)[0]: the part of s before the first sep, all of s without one
RECURSIVE SplitFirst(_, _)
SplitFirst(s, sep) ==
    IF s = <<>> \/ s[1] = sep
    THEN <<>>
    ELSE <<s[1]>> \o SplitFirst(Tail(s), sep)

\* "\n".join(lines)
RECURSIVE Join(_)
Join(lines) ==
    IF lines = <<>> THEN <<>>
    ELSE IF Len(lines) = 1 THEN lines[1]
    ELSE lines[1] \o <<"\n">> \o Join(Tail(lines))

\* ac_regex.match(line): [A-Z][0-9][A-Z,0-9][A-Z,0-9][A-Z,0-9][0-9] at the
\* start of the line; None without a match, else the six matched characters
AcRegexMatch(line) ==
    LET any == Upper \cup Digits \cup {","}
    IN  IF /\ Len(line) >= 6
           /\ line[1] \in Upper
           /\ line[2] \in Digits
           /\ line[3] \in any
           /\ line[4] \in any
           /\ line[5] \in any
           /\ line[6] \in Digits
        THEN SubSeq(line, 1, 6)
        ELSE None

\* context_regex.search(aString): the leftmost "#[0-9][0-9]?", the second
\* digit taken when there is one; None without a match
ContextRegexSearch(aString) ==
    LET starts == {i \in 1..(Len(aString) - 1) :
                      aString[i] = "#" /\ aString[i + 1] \in Digits}
    IN  IF starts = {} THEN None
        ELSE LET i == CHOOSE j \in starts : \A k \in starts : j <= k
             IN  IF i + 2 <= Len(aString) /\ aString[i + 2] \in Digits
                 THEN SubSeq(aString, i, i + 2)
                 ELSE SubSeq(aString, i, i + 1)

\* int() of one digit character
DigitValue(c) ==
    CASE c = "0" -> 0 [] c = "1" -> 1 [] c = "2" -> 2 [] c = "3" -> 3
      [] c = "4" -> 4 [] c = "5" -> 5 [] c = "6" -> 6 [] c = "7" -> 7
      [] c = "8" -> 8 [] c = "9" -> 9

(***************************************************************************)
(* The lines the model reads.  Each is a line of the file as the loop of   *)
(* Report.parse sees it, the newline included.                             *)
(***************************************************************************)
\* ID foo\n: the ID line of the documented example
L_ID == <<"I", "D", " ", "f", "o", "o", "\n">>

\* XX\n: the XX line of the documented example
L_XX == <<"X", "X", "\n">>

\* ## note one\n: the annotation of the documented example
L_note == <<"#", "#", " ", "n", "o", "t", "e", " ", "o", "n", "e", "\n">>

\* AC  P12345;\n: the AC line of the documented example (two blanks)
L_AC2 == <<"A", "C", " ", " ", "P", "1", "2", "3", "4", "5", ";", "\n">>

\* //\n: end of an entry
L_END == <<"/", "/", "\n">>

\* AC   P12345;\n: AC line of a flat file entry (line code, three blanks)
L_ACP == <<"A", "C", " ", " ", " ", "P", "1", "2", "3", "4", "5", ";", "\n">>

\* AC   Q67890;\n: AC line with another accession
L_ACQ == <<"A", "C", " ", " ", " ", "Q", "6", "7", "8", "9", "0", ";", "\n">>

\* R11111\n: logfile line that starts with an accession
L_SEC == <<"R", "1", "1", "1", "1", "1", "\n">>

\* AC:\n: logfile AC: line
L_LOG == <<"A", "C", ":", "\n">>

\* x\n: any other line
L_x == <<"x", "\n">>

\* ## a\n: annotation without a context specifier
L_a == <<"#", "#", " ", "a", "\n">>

\* ## #5 b\n: annotation asking for 5 lines of context
L_5 == <<"#", "#", " ", "#", "5", " ", "b", "\n">>

\* ## #0 c\n: annotation asking for no context
L_0 == <<"#", "#", " ", "#", "0", " ", "c", "\n">>

\* ## #9 c\n: annotation asking for 9 lines of context
L_9 == <<"#", "#", " ", "#", "9", " ", "c", "\n">>

\* ## #12 c\n: annotation with a two-digit context specifier
L_12 == <<"#", "#", " ", "#", "1", "2", " ", "c", "\n">>

\* the n-th line of a file of the "context" family when it is an ordinary
\* line of the entry: "x1", "x2", ... (all different within one window)
EntryLine(n) ==
    <<"x", <<"1", "2", "3", "4", "5", "6", "7", "8", "9",
             "a", "b", "c", "d", "e", "f", "g">>[n], "\n">>

RecordLines == {L_a, L_5, L_x, L_ACP, L_ACQ, L_SEC, L_LOG, L_END}

ExampleLines == {L_ID, L_XX, L_note, L_AC2, L_END}

MarkedLines == {L_a, L_0, L_5, L_9, L_12, L_END}

\* number of lines of a "context" file that are not ordinary entry lines
Marked(lines) == Cardinality({i \in 1..Len(lines) : lines[i] \in MarkedLines})

\* the lines a file of the family may continue with after the lines read
NextLines(fam, lines) ==
    CASE fam = "records" ->
            IF Len(lines) < MaxLines THEN RecordLines ELSE {}
      [] fam = "example" ->
            IF Len(lines) < MaxExample THEN ExampleLines ELSE {}
      [] fam = "context" ->
            IF Len(lines) < MaxLong
            THEN {EntryLine(Len(lines) + 1)} \cup
                 (IF Marked(lines) < MaxMarked THEN MarkedLines ELSE {})
            ELSE {}

(***************************************************************************)
(* State                                                                   *)
(***************************************************************************)
VARIABLES
    ids,              \* Feedback._ids: the class-wide counter of instances
    scanner,          \* Report.scanner: deque(maxlen = 10) of stripped lines
    current_entry,    \* Report.current_entry: accession of the entry, or None
    current_context,  \* Report.current_context: number of lines of context
    all_accessions,   \* Report.all_accessions
    all_feedback,     \* Report.all_feedback: the Feedback instances
    fb_block,         \* local fb_block of Report.parse
    pc,               \* "scan": in the loop of parse; "done": parse returned;
                      \* "raised": parse left by an IndexError
    input,            \* the lines of the file read so far by this parse
    family,           \* which family of files is read
    run,              \* 1: the first Report of the process; 2: a second one
    file,             \* run 2: the file of run 1, which is parsed again
    first             \* run 2: all_feedback as run 1 left it

vars == <<ids, scanner, current_entry, current_context, all_accessions,
          all_feedback, fb_block, pc, input, family, run, file, first>>

\* maxlen of Report.scanner
ScannerMaxLen == 10

(***************************************************************************)
(* Feedback                                                                *)
(***************************************************************************)
\* NewFeedback with a bug: the id is counted per Report, not per class
NewFeedback_PerReport(counter, ac, lineno) ==
    [id |-> Len(all_feedback), feedback |-> <<>>, context |-> <<>>, ac |-> ac,
     tag |-> None, line |-> lineno]

\* Feedback(feedback=None, context=None, ac=ac): id is next(Feedback._ids),
\* the two StringIO are empty.  line is not a field of the class: it records
\* the number of the file's line that created the instance.
NewFeedback(counter, ac, lineno) ==
    [id |-> counter, feedback |-> <<>>, context |-> <<>>, ac |-> ac,
     tag |-> None, line |-> lineno]

\* add_feedback with a bug: the text after the marker is not stripped
add_feedback_NoStrip(fb, aString) ==
    [fb EXCEPT !.feedback = @ \o SliceFrom(aString, 2) \o <<" ">>]

\* Feedback.add_feedback
add_feedback(fb, aString) ==
    [fb EXCEPT !.feedback = @ \o Strip(SliceFrom(aString, 2)) \o <<" ">>]

\* Feedback.add_context: the StringIO is written once, from its start
add_context(fb, aString) ==
    [fb EXCEPT !.context =
        aString \o (IF Len(@) > Len(aString)
                    THEN SubSeq(@, Len(aString) + 1, Len(@)) ELSE <<>>)]

(***************************************************************************)
(* Report                                                                  *)
(***************************************************************************)
\* the fields of a Report after Report.__init__
NewReport ==
    [scanner |-> <<>>, current_entry |-> None, current_context |-> 1,
     all_accessions |-> <<>>, all_feedback |-> <<>>]

\* deque.append with a bug: the deque has no maxlen
ScannerAppend_Unbounded(sc, x) == Append(sc, x)

\* deque.append on a deque with maxlen: a full deque drops its oldest entry
ScannerAppend(sc, x) ==
    IF Len(sc) = ScannerMaxLen THEN Append(Tail(sc), x) ELSE Append(sc, x)

\* __reset_current_context with a bug: current_context is left as it is
ResetCurrentContext_Keep(self) == self

\* Report.__reset_current_context
ResetCurrentContext(self) == [self EXCEPT !.current_context = 1]

\* __check_for_context with a bug: a two-digit specifier is taken at its value
CheckForContext_TwoDigits(self, aString) ==
    LET match == ContextRegexSearch(aString)
    IN  IF match # None /\ Len(match) < 3
        THEN [self EXCEPT !.current_context = DigitValue(match[2])]
        ELSE IF match # None /\ Len(match) = 3
        THEN [self EXCEPT !.current_context =
                 10 * DigitValue(match[2]) + DigitValue(match[3])]
        ELSE self

\* Report.__check_for_context
CheckForContext(self, aString) ==
    LET match == ContextRegexSearch(aString)
    IN  IF match # None /\ Len(match) < 3
        THEN [self EXCEPT !.current_context = DigitValue(match[2])]
        ELSE IF match # None /\ Len(match) = 3
        THEN [self EXCEPT !.current_context = 9]
        ELSE self

\* __extract_context with a bug: the slice ends with the annotation line
ExtractContext_WithAnnotation(self) ==
    LET lines_of_context == Len(self.scanner)
        end_idx == lines_of_context
        start_idx == end_idx - self.current_context
        d_list == self.scanner
    IN  IF start_idx >= 0
        THEN Join(SubSeq(d_list, start_idx + 1, end_idx))
        ELSE Join(SubSeq(d_list, 1, end_idx))

\* Report.__extract_context (d_list[a:b] of Python is SubSeq(d_list, a+1, b))
ExtractContext(self) ==
    LET lines_of_context == Len(self.scanner)
        end_idx == lines_of_context - 1
        start_idx == end_idx - self.current_context
        d_list == self.scanner
    IN  IF start_idx >= 0
        THEN Join(SubSeq(d_list, start_idx + 1, end_idx))
        ELSE Join(SubSeq(d_list, 1, end_idx))

\* __reset with a bug: current_entry is not cleared
Reset_KeepEntry(self) ==
    [self EXCEPT !.current_context = 1,
                 !.all_accessions = Append(@, self.current_entry),
                 !.scanner = <<>>]

\* __reset with a bug: the window is not cleared
Reset_KeepWindow(self) ==
    [self EXCEPT !.current_context = 1,
                 !.all_accessions = Append(@, self.current_entry),
                 !.current_entry = None]

\* Report.__reset
Reset(self) ==
    LET s == ResetCurrentContext(self)
    IN  [s EXCEPT !.all_accessions = Append(@, self.current_entry),
                  !.current_entry = None,
                  !.scanner = <<>>]

\* Report.__generate_feedback followed, as in parse, by
\* __reset_current_context, __provide_context and add_feedback
OpenFeedback(self, counter, line, lineno) ==
    LET fb == NewFeedback(counter, self.current_entry, lineno)
        s1 == CheckForContext(ResetCurrentContext(self), line)
        fb1 == add_feedback(add_context(fb, ExtractContext(s1)), line)
    IN  [s1 EXCEPT !.all_feedback = Append(@, fb1)]

\* the continuation branch with a bug: the context specifier is read again
ContinueFeedback_Recheck(self, line) ==
    LET s1 == CheckForContext(self, line)
    IN  [s1 EXCEPT !.all_feedback[Len(self.all_feedback)] =
                       add_feedback(@, line)]

\* __get_current_feedback with a bug: all_feedback[0] instead of [-1]
ContinueFeedback_First(self, line) ==
    [self EXCEPT !.all_feedback[1] = add_feedback(@, line)]

\* __get_current_feedback followed by add_feedback
ContinueFeedback(self, line) ==
    [self EXCEPT !.all_feedback[Len(self.all_feedback)] = add_feedback(@, line)]

\* the loop body with a bug: a line that starts with an accession always
\* sets current_entry
ParseBody_SecondaryOverwrites(self, block, counter, line, lineno) ==
    LET s0 == [self EXCEPT !.scanner = ScannerAppend(@, Strip(line))]
        ac_match == AcRegexMatch(line)
        same == [self |-> s0, fb_block |-> block, ids |-> counter]
    IN  IF StartsWith(line, <<"A", "C", " ">>)
        THEN [same EXCEPT !.fb_block = FALSE,
                          !.self.current_entry =
                              SplitFirst(SliceFrom(line, 5), ";")]
        ELSE IF StartsWith(line, <<"A", "C", ":">>)
        THEN same
        ELSE IF ac_match # None
        THEN [same EXCEPT !.self.current_entry = ac_match]
        ELSE IF StartsWith(line, <<"#", "#">>)
        THEN IF ~block
             THEN [self |-> OpenFeedback(s0, counter, line, lineno),
                   fb_block |-> TRUE, ids |-> counter + 1]
             ELSE [same EXCEPT !.self = ContinueFeedback(s0, line)]
        ELSE IF StartsWith(line, <<"/", "/">>)
        THEN [same EXCEPT !.self = Reset(s0), !.fb_block = FALSE]
        ELSE [same EXCEPT !.fb_block = FALSE]

\* one pass of the loop of Report.parse: the Report, fb_block and the
\* counter Feedback._ids after the line
ParseBody(self, block, counter, line, lineno) ==
    LET s0 == [self EXCEPT !.scanner = ScannerAppend(@, Strip(line))]
        ac_match == AcRegexMatch(line)
        same == [self |-> s0, fb_block |-> block, ids |-> counter]
    IN  IF StartsWith(line, <<"A", "C", " ">>)
        THEN [same EXCEPT !.fb_block = FALSE,
                          !.self.current_entry =
                              SplitFirst(SliceFrom(line, 5), ";")]
        ELSE IF StartsWith(line, <<"A", "C", ":">>)
        THEN same
        ELSE IF ac_match # None
        THEN IF s0.current_entry = None
             THEN [same EXCEPT !.self.current_entry = ac_match]
             ELSE same
        ELSE IF StartsWith(line, <<"#", "#">>)
        THEN IF ~block
             THEN [self |-> OpenFeedback(s0, counter, line, lineno),
                   fb_block |-> TRUE, ids |-> counter + 1]
             ELSE [same EXCEPT !.self = ContinueFeedback(s0, line)]
        ELSE IF StartsWith(line, <<"/", "/">>)
        THEN [same EXCEPT !.self = Reset(s0), !.fb_block = FALSE]
        ELSE [same EXCEPT !.fb_block = FALSE]

\* Report.__retrofit_ACs from the i-th Feedback on: the list as the loop
\* leaves it, and whether the loop was left by the IndexError of
\* all_accessions[-1] on an empty list
RECURSIVE RetrofitFrom(_, _, _)
RetrofitFrom(fbs, accs, i) ==
    IF i > Len(fbs)
    THEN [all_feedback |-> fbs, raised |-> FALSE]
    ELSE IF fbs[i].ac # None
    THEN RetrofitFrom(fbs, accs, i + 1)
    ELSE IF i + 1 <= Len(fbs)
    THEN RetrofitFrom([fbs EXCEPT ![i].ac = fbs[i + 1].ac], accs, i + 1)
    ELSE IF accs # <<>>
    THEN RetrofitFrom([fbs EXCEPT ![i].ac = Last(accs)], accs, i + 1)
    ELSE [all_feedback |-> fbs, raised |-> TRUE]

\* __retrofit_ACs with a bug: the test "fb.ac is None" is missing, every
\* Feedback gets the ac of the next one and the last one all_accessions[-1]
RetrofitACs_Overwrite(self) ==
    LET fbs == self.all_feedback
        accs == self.all_accessions
    IN  [all_feedback |->
            [i \in 1..Len(fbs) |->
                [fbs[i] EXCEPT !.ac = IF i < Len(fbs) THEN fbs[i + 1].ac
                                      ELSE IF accs # <<>> THEN Last(accs)
                                      ELSE @]],
         raised |-> FALSE]

\* __retrofit_ACs with a bug: all_accessions[-1] is read before the loop
RetrofitACs_EagerLast(self) ==
    IF self.all_accessions = <<>>
    THEN [all_feedback |-> self.all_feedback, raised |-> TRUE]
    ELSE RetrofitFrom(self.all_feedback, self.all_accessions, 1)

RetrofitACs(self) == RetrofitFrom(self.all_feedback, self.all_accessions, 1)

\* the Report of the current state
Self ==
    [scanner |-> scanner, current_entry |-> current_entry,
     current_context |-> current_context, all_accessions |-> all_accessions,
     all_feedback |-> all_feedback]

(***************************************************************************)
(* Actions                                                                 *)
(***************************************************************************)
InitFamily(fam) ==
    /\ ids = 0
    /\ scanner = NewReport.scanner
    /\ current_entry = NewReport.current_entry
    /\ current_context = NewReport.current_context
    /\ all_accessions = NewReport.all_accessions
    /\ all_feedback = NewReport.all_feedback
    /\ fb_block = FALSE
    /\ pc = "scan"
    /\ input = <<>>
    /\ family = fam
    /\ run = 1
    /\ file = <<>>
    /\ first = <<>>

Init == InitFamily("records")

InitExample == InitFamily("example")

InitContext == InitFamily("context")

\* the lines the file may continue with: any line of the family in the
\* first run, the next line of the same file in the second
Readable ==
    IF run = 1
    THEN NextLines(family, input)
    ELSE IF Len(input) < Len(file) THEN {file[Len(input) + 1]} ELSE {}

\* "for line in f": the body of the loop for the next line of the file
ParseLine ==
    /\ pc = "scan"
    /\ \E line \in Readable :
         LET r == ParseBody(Self, fb_block, ids, line, Len(input) + 1)
         IN  /\ scanner' = r.self.scanner
             /\ current_entry' = r.self.current_entry
             /\ current_context' = r.self.current_context
             /\ all_accessions' = r.self.all_accessions
             /\ all_feedback' = r.self.all_feedback
             /\ fb_block' = r.fb_block
             /\ ids' = r.ids
             /\ input' = Append(input, line)
    /\ UNCHANGED <<pc, family, run, file, first>>

\* the file is exhausted: parse calls __retrofit_ACs and returns or raises
EndOfFile ==
    /\ pc = "scan"
    /\ run = 2 => Len(input) = Len(file)
    /\ LET r == RetrofitACs(Self)
       IN  /\ all_feedback' = r.all_feedback
           /\ pc' = IF r.raised THEN "raised" ELSE "done"
    /\ UNCHANGED <<ids, scanner, current_entry, current_context,
                   all_accessions, fb_block, input, family, run, file, first>>

\* the same process makes a second Report and parses the same file again
SecondReport ==
    /\ pc = "done"
    /\ run = 1
    /\ run' = 2
    /\ file' = input
    /\ first' = all_feedback
    /\ scanner' = NewReport.scanner
    /\ current_entry' = NewReport.current_entry
    /\ current_context' = NewReport.current_context
    /\ all_accessions' = NewReport.all_accessions
    /\ all_feedback' = NewReport.all_feedback
    /\ fb_block' = FALSE
    /\ pc' = "scan"
    /\ input' = <<>>
    /\ UNCHANGED <<ids, family>>

Next == ParseLine \/ EndOfFile \/ SecondReport

Spec == Init /\ [][Next]_vars

SpecExample == InitExample /\ [][Next]_vars

SpecContext == InitContext /\ [][Next]_vars

TypeOK ==
    /\ ids \in Nat
    /\ Len(scanner) <= ScannerMaxLen
    /\ current_context \in 0..9
    /\ pc \in {"scan", "done", "raised"}
    /\ run \in {1, 2}

(***************************************************************************)
(* Vocabulary of the properties                                            *)
(***************************************************************************)
\* the branch of the loop of Report.parse a line takes
LineKind(line) ==
    IF StartsWith(line, <<"A", "C", " ">>) THEN "record_start"
    ELSE IF StartsWith(line, <<"A", "C", ":">>) THEN "logfile"
    ELSE IF AcRegexMatch(line) # None THEN "secondary"
    ELSE IF StartsWith(line, <<"#", "#">>) THEN "annotation"
    ELSE IF StartsWith(line, <<"/", "/">>) THEN "record_end"
    ELSE "other"

\* the accession written on the AC lines of the flat file entries
P12345 == <<"P", "1", "2", "3", "4", "5">>

Q67890 == <<"Q", "6", "7", "8", "9", "0">>

AccessionOf(line) ==
    CASE line = L_ACP -> P12345
      [] line = L_ACQ -> Q67890
      [] OTHER -> None

\* the lines of an entry are those after the record-end line before line p
\* up to the next record-end line (or the end of the file)
RecordFirst(lines, p) ==
    LET ends == {j \in 1..(p - 1) : LineKind(lines[j]) = "record_end"}
    IN  IF ends = {} THEN 1
        ELSE 1 + CHOOSE j \in ends : \A k \in ends : k <= j

RecordLast(lines, p) ==
    LET ends == {j \in p..Len(lines) : LineKind(lines[j]) = "record_end"}
    IN  IF ends = {} THEN Len(lines)
        ELSE CHOOSE j \in ends : \A k \in ends : j <= k

\* the record-start lines of the entry around line p
RecordStarts(lines, p) ==
    {j \in RecordFirst(lines, p)..RecordLast(lines, p) :
        LineKind(lines[j]) = "record_start"}

\* every entry of the file has exactly one record-start line
OneStartPerRecord(lines) ==
    \A p \in 1..Len(lines) : Cardinality(RecordStarts(lines, p)) = 1

\* the parse step just taken read a line (input grew by it)
ReadsLine == pc = "scan" /\ Len(input') = Len(input) + 1

\* a flat file: no logfile lines, the accession is on the AC lines only
FlatFile(lines) ==
    \A p \in 1..Len(lines) : LineKind(lines[p]) \notin {"logfile", "secondary"}

Items == 1..Len(all_feedback)

\* the parse step just taken read a line that opened a new Feedback
OpensFeedback == ReadsLine /\ Len(all_feedback') = Len(all_feedback) + 1

\* the lines pushed on the window since the last record-end line before
\* line p of the file (or since the start of the file), oldest first
PushedBefore(lines, p) ==
    LET f == RecordFirst(lines, p)
    IN  [j \in 1..(p - f) |-> Strip(lines[f + j - 1])]

\* the last k entries of a sequence
LastK(seq, k) == SubSeq(seq, Len(seq) - k + 1, Len(seq))

\* the parse step just taken was the retrofit at the end of the file
Retrofits == pc = "scan" /\ pc' # "scan"

(***************************************************************************)
(* C1: after parse has finished, every Feedback that was followed in the   *)
(* file by a record-end line or by a secondary-identifier line has an      *)
(* accession that is not None.                                             *)
(***************************************************************************)
C1_AccessionSetAfterParse ==
    pc = "done" =>
        \A i \in Items :
            (\E j \in (all_feedback[i].line + 1)..Len(input) :
                LineKind(input[j]) \in {"record_end", "secondary"})
            => all_feedback[i].ac # None

(***************************************************************************)
(* C2: the retrofit gives every Feedback without accession the accession   *)
(* of the nearest later Feedback that has one, skipping later ones that    *)
(* have none, and the last entry of all_accessions only when no later      *)
(* Feedback has an accession.                                              *)
(***************************************************************************)
C2_NearestLaterAccession ==
    [][ (Retrofits /\ pc' = "done") =>
          \A i \in Items :
              all_feedback[i].ac = None =>
                  LET later == {j \in Items :
                                   j > i /\ all_feedback[j].ac # None}
                  IN  all_feedback'[i].ac =
                        IF later # {}
                        THEN all_feedback[CHOOSE j \in later :
                                            \A k \in later : j <= k].ac
                        ELSE Last(all_accessions) ]_vars

(***************************************************************************)
(* C3: in a file whose entries each have one AC line, the final accession  *)
(* of every Feedback is the accession of the entry that encloses the       *)
(* annotation's first line (stated for flat files, where only the AC line  *)
(* carries the accession of the entry).                                    *)
(***************************************************************************)
C3_AccessionOfEnclosingRecord ==
    (pc = "done" /\ OneStartPerRecord(input) /\ FlatFile(input)) =>
        \A i \in Items :
            \A j \in RecordStarts(input, all_feedback[i].line) :
                all_feedback[i].ac = AccessionOf(input[j])

(***************************************************************************)
(* C4: the scan and the retrofit never raise, whatever the lines are.      *)
(***************************************************************************)
C4_NeverRaises == pc # "raised"

(***************************************************************************)
(* C5: the context captured when a Feedback is opened is exactly the last  *)
(* k lines pushed before the annotation line, oldest first, with k the     *)
(* least of current_context after the specifier was read, the number of    *)
(* lines pushed since the last record-end line, and 9; the annotation line *)
(* is not part of it.                                                      *)
(***************************************************************************)
C5_ContextIsLastKLines ==
    [][ OpensFeedback =>
          LET prior == PushedBefore(input', Len(input'))
              k == Min(Min(current_context', Len(prior)), 9)
          IN  Last(all_feedback').context = Join(LastK(prior, k)) ]_vars

\* a Feedback opened on line 11 of an entry with the 9 lines before it as
\* context (the window has dropped line 1), and one opened on line 3 with
\* more context asked for than the 2 lines read
C5_Witness ==
    \E i \in Items :
        /\ all_feedback[i].line = 11
        /\ RecordFirst(input, 11) = 1
        /\ input[11] \in {L_9, L_12}
        /\ all_feedback[i].context = Join([j \in 1..9 |-> Strip(input[j + 1])])

(***************************************************************************)
(* C6: the documented example, ID foo / XX / ## note one / AC  P12345; /   *)
(* //, gives one Feedback with text "note one ", context ID foo and XX,    *)
(* and accession P12345.                                                   *)
(***************************************************************************)
Example == <<L_ID, L_XX, L_note, L_AC2, L_END>>

NoteOne == <<"n", "o", "t", "e", " ", "o", "n", "e", " ">>

C6_ExampleAsDocumented ==
    (pc = "done" /\ input = Example) =>
        /\ Len(all_feedback) = 1
        /\ all_feedback[1].feedback = NoteOne
        /\ all_feedback[1].context =
               Join(<<<<"I", "D", " ", "f", "o", "o">>, <<"X", "X">>>>)
        /\ all_feedback[1].ac = P12345

\* C6 as amended: without a context specifier the context is the one line
\* before the annotation, XX, and the accession is the text of the AC line
\* from its sixth character up to the semicolon, 12345.
C6_ExampleAsParsed ==
    (pc = "done" /\ input = Example) =>
        /\ Len(all_feedback) = 1
        /\ all_feedback[1].feedback = NoteOne
        /\ all_feedback[1].context = <<"X", "X">>
        /\ all_feedback[1].ac = <<"1", "2", "3", "4", "5">>

C6_Witness == pc = "done" /\ input = Example /\ Len(all_feedback) = 1

(***************************************************************************)
(* C7: in every state of a parse, current_context is an integer from 1 to  *)
(* 9, whatever context specifiers the annotation lines have.               *)
(***************************************************************************)
C7_ContextSizeOneToNine == current_context \in 1..9

\* C7 as amended: current_context is an integer from 0 to 9; the specifier
\* #0 sets it to 0.
C7_ContextSizeZeroToNine == current_context \in 0..9

C7_Witness ==
    /\ input # <<>>
    /\ Last(input) = L_0
    /\ all_feedback # <<>>
    /\ Last(all_feedback).line = Len(input)
    /\ current_context = 0

(***************************************************************************)
(* C8: the first line of an annotation block sets current_context from 1:  *)
(* a one-digit specifier #d gives d, a two-digit specifier gives 9, and a  *)
(* line without specifier gives 1 whatever an earlier block left.          *)
(***************************************************************************)
C8_ContextSizeFromSpecifier ==
    [][ OpensFeedback =>
          LET line == Last(input')
          IN  /\ line = L_0 => current_context' = 0
              /\ line = L_5 => current_context' = 5
              /\ line = L_9 => current_context' = 9
              /\ line = L_12 => current_context' = 9
              /\ line \in {L_a, L_note} => current_context' = 1 ]_vars

\* a block without specifier has just been opened, in the same entry as an
\* earlier block that asked for 5 lines: current_context is 1 again
C8_Witness ==
    /\ Len(all_feedback) >= 2
    /\ Last(all_feedback).line = Len(input)
    /\ Last(input) = L_a
    /\ current_context = 1
    /\ LET p == all_feedback[Len(all_feedback) - 1].line
       IN  /\ input[p] = L_5
           /\ RecordFirst(input, Len(input)) <= p

(***************************************************************************)
(* C9: a second Report parsing the same file gives the same Feedback in    *)
(* the same order, equal in id, feedback, context and ac.                  *)
(***************************************************************************)
Fields(fb) == <<fb.id, fb.feedback, fb.context, fb.ac>>

C9_SecondRunIdentical ==
    (run = 2 /\ pc # "scan") =>
        /\ pc = "done"
        /\ Len(all_feedback) = Len(first)
        /\ \A i \in Items : Fields(all_feedback[i]) = Fields(first[i])

\* C9 as amended: feedback, context and ac are the same; the ids are not,
\* they continue from the class-wide counter and are the ids of the first
\* run plus the number of Feedback the first run made.
C9_SecondRunSameButIds ==
    (run = 2 /\ pc # "scan") =>
        /\ pc = "done"
        /\ Len(all_feedback) = Len(first)
        /\ \A i \in Items :
              /\ all_feedback[i].feedback = first[i].feedback
              /\ all_feedback[i].context = first[i].context
              /\ all_feedback[i].ac = first[i].ac
              /\ all_feedback[i].id = first[i].id + Len(first)

C9_Witness ==
    /\ run = 2
    /\ pc = "done"
    /\ Len(all_feedback) >= 2
    /\ all_feedback[1].id = first[1].id + Len(first)
    /\ \E i \in Items : all_feedback[i].context # <<>>

(***************************************************************************)
(* C10: every record boundary line, record-start (AC) as well as           *)
(* record-end (//), resets current_context to 1 and clears the window of   *)
(* the lines pushed before it, so that no Feedback opened after a          *)
(* record-start line has in its context a line pushed before that line.    *)
(***************************************************************************)
C10_EveryBoundaryResets ==
    [][ (ReadsLine /\ LineKind(Last(input')) \in {"record_start", "record_end"})
          => /\ current_context' = 1
             /\ scanner' \in {<<>>, <<Strip(Last(input'))>>} ]_vars

\* C10 as amended: only the record-end line resets current_context and
\* clears the window; a record-start line is pushed on the window, keeps
\* the earlier lines and leaves current_context alone.  The context of a
\* Feedback is made of lines pushed after the last record-end line.
C10_OnlyRecordEndResets ==
    [][ ReadsLine =>
          LET line == Last(input')
          IN  /\ LineKind(line) = "record_end" =>
                    current_context' = 1 /\ scanner' = <<>>
              /\ LineKind(line) = "record_start" =>
                    /\ current_context' = current_context
                    /\ Len(scanner) < ScannerMaxLen =>
                           scanner' = Append(scanner, Strip(line))
              /\ OpensFeedback =>
                    \E k \in 0..9 :
                        /\ k <= Len(PushedBefore(input', Len(input')))
                        /\ Last(all_feedback').context =
                             Join(LastK(PushedBefore(input', Len(input')), k))
      ]_vars

\* a Feedback opened right after a record-start line has that line and the
\* line pushed before it as its context
C10_Witness ==
    \E i \in Items :
        LET p == all_feedback[i].line
        IN  /\ p >= 3
            /\ LineKind(input[p - 1]) = "record_start"
            /\ LineKind(input[p - 2]) = "other"
            /\ all_feedback[i].context =
                   Join(<<Strip(input[p - 2]), Strip(input[p - 1])>>)

(***************************************************************************)
(* C11: right after a record-end line the window is empty (the line itself *)
(* is not in it), current_context is 1, current_entry is None, fb_block is *)
(* false, and all_accessions has grown by exactly one entry, the value     *)
(* current_entry had before the line.                                      *)
(***************************************************************************)
C11_StateAfterRecordEnd ==
    [][ (ReadsLine /\ LineKind(Last(input')) = "record_end") =>
          /\ scanner' = <<>>
          /\ current_context' = 1
          /\ current_entry' = None
          /\ fb_block' = FALSE
          /\ all_accessions' = all_accessions \o <<current_entry>> ]_vars

\* a record-end line has just closed an entry that had an accession, an
\* open annotation block and more than one line of context asked for
C11_Witness ==
    /\ Len(input) >= 3
    /\ Last(input) = L_END
    /\ input[Len(input) - 1] = L_5
    /\ scanner = <<>>
    /\ current_context = 1
    /\ ~fb_block
    /\ current_entry = None
    /\ all_accessions = <<P12345>>

(***************************************************************************)
(* C12: while an annotation block is open, a further annotation line       *)
(* appends its stripped text and a blank to the last Feedback and changes  *)
(* nothing else of the Feedback list, of current_context, current_entry    *)
(* and all_accessions, also when the line has a context specifier.         *)
(***************************************************************************)
TextOf(line) ==
    CASE line = L_a -> <<"a", " ">>
      [] line = L_5 -> <<"#", "5", " ", "b", " ">>

C12_ContinuationOnlyAppends ==
    [][ (ReadsLine /\ fb_block /\ LineKind(Last(input')) = "annotation") =>
          /\ all_feedback # <<>>
          /\ all_feedback' =
                [all_feedback EXCEPT ![Len(all_feedback)].feedback =
                                         @ \o TextOf(Last(input'))]
          /\ current_context' = current_context
          /\ current_entry' = current_entry
          /\ all_accessions' = all_accessions
          /\ fb_block' ]_vars

\* a block opened without specifier was continued by a line with the
\* specifier #5: one Feedback, its context the one line before the block,
\* current_context still 1
C12_Witness ==
    /\ Len(input) >= 3
    /\ Last(input) = L_5
    /\ input[Len(input) - 1] = L_a
    /\ input[Len(input) - 2] = L_x
    /\ LineKind(input[1]) = "other"
    /\ Len(all_feedback) = 1
    /\ all_feedback[1].feedback = <<"a", " ", "#", "5", " ", "b", " ">>
    /\ all_feedback[1].context = <<"x">>
    /\ current_context = 1

(***************************************************************************)
(* C13: the window never holds more than 10 lines; pushing a line on a     *)
(* full window drops the oldest line and keeps the other nine in order.    *)
(***************************************************************************)
C13_WindowAtMostTen ==
    /\ [](Len(scanner) <= 10)
    /\ [][ (ReadsLine /\ Len(scanner) = 10
              /\ LineKind(Last(input')) # "record_end") =>
             /\ Len(scanner') = 10
             /\ \A j \in 1..9 : scanner'[j] = scanner[j + 1]
             /\ scanner'[10] = Strip(Last(input')) ]_vars

\* eleven lines were pushed without a record-end line: the window holds
\* the last ten of them
C13_Witness ==
    /\ Len(input) >= 11
    /\ RecordFirst(input, Len(input) + 1) = 1
    /\ scanner = [j \in 1..10 |-> Strip(input[Len(input) - 10 + j])]

(***************************************************************************)
(* C14: parsing an empty file gives no Feedback and an empty               *)
(* all_accessions, and the retrofit ends without error.                    *)
(***************************************************************************)
C14_EmptyFile ==
    (pc # "scan" /\ input = <<>>) =>
        /\ pc = "done"
        /\ all_feedback = <<>>
        /\ all_accessions = <<>>

C14_Witness ==
    /\ pc = "done"
    /\ input = <<>>
    /\ run = 1
    /\ all_feedback = <<>>

(***************************************************************************)
(* C15: fb_block is true exactly when the line processed last was an       *)
(* annotation line; every other line (record-start, secondary identifier,  *)
(* record-end, logfile AC: line, any other line) leaves it false, so two   *)
(* annotation lines with another line between them give two Feedback.      *)
(***************************************************************************)
C15_BlockOpenIffLastLineAnnotation ==
    fb_block <=> (input # <<>> /\ LineKind(Last(input)) = "annotation")

(***************************************************************************)
(* C16: whenever fb_block is true there is a Feedback, and text is only    *)
(* ever appended to the Feedback created last, and only while fb_block is  *)
(* true: with fb_block false the text of no existing Feedback changes.     *)
(***************************************************************************)
C16_OnlyOpenFeedbackGrows ==
    /\ [](fb_block => all_feedback # <<>>)
    /\ [][ \A i \in Items :
             (i <= Len(all_feedback')
                /\ all_feedback'[i].feedback # all_feedback[i].feedback)
             => /\ fb_block
                /\ i = Len(all_feedback)
                /\ Len(all_feedback') = Len(all_feedback) ]_vars

\* the second of two Feedback has been continued, the first has the text
\* of its one line
C16_Witness ==
    /\ fb_block
    /\ Len(all_feedback) = 2
    /\ all_feedback[1].feedback = <<"a", " ">>
    /\ all_feedback[2].feedback = <<"a", " ", "a", " ">>
    /\ all_feedback[2].line = Len(input) - 1

(***************************************************************************)
(* C17: a secondary-identifier line sets current_entry to the accession it *)
(* starts with only when current_entry is None, leaves it as it is         *)
(* otherwise, and changes neither the Feedback, all_accessions nor         *)
(* current_context.                                                        *)
(***************************************************************************)
R11111 == <<"R", "1", "1", "1", "1", "1">>

C17_SecondaryOnlyWhenUnset ==
    [][ (ReadsLine /\ Last(input') = L_SEC) =>
          /\ current_entry' =
                IF current_entry = None THEN R11111 ELSE current_entry
          /\ all_feedback' = all_feedback
          /\ all_accessions' = all_accessions
          /\ current_context' = current_context ]_vars

\* the line R11111 came after the AC line of P12345 and after an annotation
\* that asked for 5 lines: P12345 and 5 are still there
C17_Witness ==
    /\ Len(input) >= 3
    /\ Last(input) = L_SEC
    /\ input[Len(input) - 1] = L_5
    /\ input[Len(input) - 2] = L_ACP
    /\ current_entry = P12345
    /\ current_context = 5
    /\ Len(all_feedback) = 1

(***************************************************************************)
(* C18: the context of a Feedback never changes after its creation; its    *)
(* accession never changes once it is not None; and the retrofit changes   *)
(* nothing but the accession of the Feedback whose accession was None.     *)
(***************************************************************************)
C18_ContextAndAccessionSetOnce ==
    [][ run' = run =>
          /\ Len(all_feedback') >= Len(all_feedback)
          /\ \A i \in Items :
                /\ all_feedback'[i].context = all_feedback[i].context
                /\ all_feedback[i].ac # None =>
                       all_feedback'[i].ac = all_feedback[i].ac
          /\ Retrofits =>
                /\ Len(all_feedback') = Len(all_feedback)
                /\ \A i \in Items :
                      all_feedback'[i] =
                          [all_feedback[i] EXCEPT !.ac = all_feedback'[i].ac]
                /\ scanner' = scanner
                /\ all_accessions' = all_accessions
                /\ current_entry' = current_entry
                /\ current_context' = current_context ]_vars

\* after the retrofit: the first Feedback, created on line 1 without
\* accession, has got one; the second keeps P12345 from its creation although
\* the entry went on with the AC line of Q67890
C18_Witness ==
    /\ pc = "done"
    /\ Len(all_feedback) = 2
    /\ all_feedback[1].line = 1
    /\ all_feedback[1].ac = P12345
    /\ all_feedback[2].ac = P12345
    /\ all_feedback[2].context # <<>>
    /\ current_entry = Q67890

(***************************************************************************)
(* C19: once current_entry is set within an entry, it keeps its value      *)
(* until the next record-end line, whatever lines come in between, further *)
(* AC lines included (stated for flat files, where current_entry is set by *)
(* the first AC line of the entry).                                        *)
(***************************************************************************)
C19_EntryKeptUntilRecordEnd ==
    [][ (ReadsLine /\ current_entry # None /\ FlatFile(input')
           /\ LineKind(Last(input')) # "record_end")
          => current_entry' = current_entry ]_vars

(***************************************************************************)
(* C20: every entry of all_accessions is an accession, never None: a       *)
(* record-end line never appends None.                                     *)
(***************************************************************************)
C20_NoUnsetAccessionRecorded ==
    \A i \in 1..Len(all_accessions) : all_accessions[i] # None

====
